---- MODULE Spec2Model ----
(***************************************************************************)
(* Model of build.py, the multi-platform packaging script of               *)
(* Cloudflare SpeedTest: main() checks the files, installs the system and  *)
(* Python dependencies through blocking subprocess.check_call invocations  *)
(* and runs pyinstaller.  Strings the code lowercases are sequences of     *)
(* one-character strings; everything else is a TLA+ string.                *)
(***************************************************************************)
EXTENDS Integers, Sequences, FiniteSets, TLC

VARIABLES
    is_static,    \* "--static" in sys.argv
    system_raw,   \* platform.system() of the host, a sequence of characters
    machine_raw,  \* platform.machine() of the host, a sequence of characters
    fs,           \* the paths that exist on the host filesystem
    fs_changes,   \* how often the filesystem changed under the run
    pc,           \* position of main()
    probes,       \* os.path.exists calls made so far: [line, path, result]
    calls,        \* subprocess.check_call invocations so far: [step, argv, outcome]
    out,          \* lines printed to the console
    returned,     \* <<step, result>> of every step function that returned
    exception,    \* exception that left main() uncaught, or "none"
    platform_info, \* <<os_name, arch>> of build_executable, <<>> before it runs
    exit_status   \* process exit status, -1 while main() is running

vars == <<is_static, system_raw, machine_raw, fs, fs_changes, pc, probes,
          calls, out, returned, exception, platform_info, exit_status>>

(***************************************************************************)
(* Bounds of the model.                                                    *)
(***************************************************************************)
MaxFsChanges == 1

(***************************************************************************)
(* The host.                                                               *)
(***************************************************************************)
MainScript == "cloudflare_speedtest.py"
Requirements == "requirements.txt"
EtcApt == "/etc/apt"
EtcApk == "/etc/apk"

Paths == {MainScript, Requirements, EtcApt, EtcApk}

\* values platform.system() reports, and the empty string it gives when unknown
SystemValues ==
    { <<"L","i","n","u","x">>,
      <<"D","a","r","w","i","n">>,
      <<"W","i","n","d","o","w","s">>,
      <<"F","r","e","e","B","S","D">>,
      <<"l","i","n","u","x">>,
      <<"D","A","R","W","I","N">>,
      <<>> }

\* values platform.machine() reports, and the empty string it gives when unknown
MachineValues ==
    { <<"x","8","6","_","6","4">>,
      <<"A","M","D","6","4">>,
      <<"a","r","m","6","4">>,
      <<"a","a","r","c","h","6","4">>,
      <<"a","r","m","v","7","l">>,
      <<"r","i","s","c","v","6","4">>,
      <<"a","m","d","6","4">>,
      <<"x","6","4">>,
      <<"a","r","m","v","8","l">>,
      <<"A","R","M","6","4">>,
      <<>> }

\* how a subprocess.check_call can end: exit status 0, a non-zero exit status
\* (CalledProcessError), or the program cannot be started (OSError)
Outcomes == {"ok", "nonzero", "oserror"}

(***************************************************************************)
(* str.lower() and the string a sequence of characters denotes.            *)
(***************************************************************************)
LowerChar(c) ==
    CASE c = "A" -> "a" [] c = "B" -> "b" [] c = "C" -> "c" [] c = "D" -> "d"
      [] c = "E" -> "e" [] c = "F" -> "f" [] c = "G" -> "g" [] c = "H" -> "h"
      [] c = "I" -> "i" [] c = "J" -> "j" [] c = "K" -> "k" [] c = "L" -> "l"
      [] c = "M" -> "m" [] c = "N" -> "n" [] c = "O" -> "o" [] c = "P" -> "p"
      [] c = "Q" -> "q" [] c = "R" -> "r" [] c = "S" -> "s" [] c = "T" -> "t"
      [] c = "U" -> "u" [] c = "V" -> "v" [] c = "W" -> "w" [] c = "X" -> "x"
      [] c = "Y" -> "y" [] c = "Z" -> "z"
      [] OTHER -> c

Lower(s) == [i \in 1..Len(s) |-> LowerChar(s[i])]

RECURSIVE Join(_)
Join(s) == IF s = <<>> THEN "" ELSE Head(s) \o Join(Tail(s))

(***************************************************************************)
(* get_platform_info                                                       *)
(***************************************************************************)
os_map(system) ==
    CASE system = "darwin"  -> "macos"
      [] system = "linux"   -> "linux"
      [] system = "windows" -> "windows"
      [] OTHER -> system

arch_map(machine) ==
    CASE machine = "x86_64"  -> "amd64"
      [] machine = "amd64"   -> "amd64"
      [] machine = "x64"     -> "amd64"
      [] machine = "arm64"   -> "arm64"
      [] machine = "aarch64" -> "arm64"
      [] machine = "armv7l"  -> "armhf"
      [] machine = "armv8l"  -> "armhf"
      [] OTHER -> machine

\* mutant of get_platform_info: the tables are looked up without lower()
get_platform_info_NoLower(sys_raw, mach_raw) ==
    << os_map(Join(sys_raw)), arch_map(Join(mach_raw)) >>

get_platform_info(sys_raw, mach_raw) ==
    << os_map(Join(Lower(sys_raw))), arch_map(Join(Lower(mach_raw))) >>

(***************************************************************************)
(* The commands.                                                           *)
(***************************************************************************)
SysExecutable == "python"

AptCmd ==
    << "sudo", "apt", "update", "&&", "sudo", "apt", "install", "-y",
       "build-essential", "zlib1g-dev", "openssl-dev", "musl-dev" >>

ApkCmd ==
    << "apk", "add", "--no-cache",
       "build-base", "zlib-dev", "openssl-dev", "musl-dev" >>

PipUpgradeCmd == << SysExecutable, "-m", "pip", "install", "--upgrade", "pip" >>

PipPyinstallerCmd == << SysExecutable, "-m", "pip", "install", "pyinstaller" >>

PipRequirementsCmd == << SysExecutable, "-m", "pip", "install", "-r", Requirements >>

\* mutant of output_name: the static build is named after the host as well
output_name_FromHost(static, os_name, arch) ==
    "CloudflareSpeedTest-" \o os_name \o "-" \o arch
        \o (IF static THEN "-static" ELSE "")

output_name(static, os_name, arch) ==
    IF static
    THEN "CloudflareSpeedTest-linux-arm64-static"
    ELSE "CloudflareSpeedTest-" \o os_name \o "-" \o arch

StaticExtra ==
    << "--target-architecture", "arm64",
       "--distpath", "dist",
       "--workpath", "build" >>

\* mutant of BuildCmd: the static branch replaces the tail of the base
\* arguments instead of extending them
BuildCmd_StaticDropsBase(static, os_name, arch) ==
    << "pyinstaller",
       "--onefile",
       "--name", output_name(static, os_name, arch),
       "--clean",
       "--noconfirm" >>
    \o (IF static
        THEN StaticExtra
        ELSE << "--strip", "--optimize", "2", "--console" >>)
    \o << "--hidden-import", "requests",
          "--hidden-import", "urllib3",
          "--hidden-import", "certifi",
          "--hidden-import", "charset_normalizer",
          "--hidden-import", "idna",
          "--exclude-module", "tkinter",
          "--exclude-module", "matplotlib",
          "--exclude-module", "numpy",
          "--exclude-module", "pandas",
          "--exclude-module", "PIL",
          "--exclude-module", "cv2",
          MainScript >>

\* mutant of BuildCmd: the module lists are given in normal mode only
BuildCmd_ListsInNormalOnly(static, os_name, arch) ==
    << "pyinstaller", "--onefile",
       "--name", output_name(static, os_name, arch),
       "--clean", "--noconfirm", "--strip", "--optimize", "2", "--console" >>
    \o (IF static
        THEN StaticExtra
        ELSE << "--hidden-import", "requests", "--hidden-import", "urllib3",
                "--hidden-import", "certifi",
                "--hidden-import", "charset_normalizer",
                "--hidden-import", "idna",
                "--exclude-module", "tkinter", "--exclude-module", "matplotlib",
                "--exclude-module", "numpy", "--exclude-module", "pandas",
                "--exclude-module", "PIL", "--exclude-module", "cv2" >>)
    \o << MainScript >>

BuildCmd(static, os_name, arch) ==
    << "pyinstaller",
       "--onefile",
       "--name", output_name(static, os_name, arch),
       "--clean",
       "--noconfirm",
       "--strip",
       "--optimize", "2",
       "--console",
       "--hidden-import", "requests",
       "--hidden-import", "urllib3",
       "--hidden-import", "certifi",
       "--hidden-import", "charset_normalizer",
       "--hidden-import", "idna",
       "--exclude-module", "tkinter",
       "--exclude-module", "matplotlib",
       "--exclude-module", "numpy",
       "--exclude-module", "pandas",
       "--exclude-module", "PIL",
       "--exclude-module", "cv2",
       MainScript >>
    \o (IF static THEN StaticExtra ELSE <<>>)

(***************************************************************************)
(* Bookkeeping of what the run did.                                        *)
(***************************************************************************)
Probe(line, path) == [line |-> line, path |-> path, result |-> path \in fs]

Call(step, argv, outcome) == [step |-> step, argv |-> argv, outcome |-> outcome]

\* a step function returns True and main() goes on to `next`
Proceed(step, lines, next) ==
    /\ out' = out \o lines
    /\ returned' = Append(returned, <<step, TRUE>>)
    /\ pc' = next
    /\ UNCHANGED <<exception, exit_status>>

\* mutant of Abort: main() runs the failed step again instead of exiting
Abort_Retry(step, lines) ==
    /\ out' = out \o lines
    /\ returned' = Append(returned, <<step, FALSE>>)
    /\ UNCHANGED <<pc, exception, exit_status>>

\* a step function returns False and main() calls sys.exit(1)
Abort(step, lines) ==
    /\ out' = out \o lines
    /\ returned' = Append(returned, <<step, FALSE>>)
    /\ pc' = "exited"
    /\ exit_status' = 1
    /\ UNCHANGED exception

\* check_call raises an exception that `except subprocess.CalledProcessError`
\* does not catch: it leaves the step function and main(), and the
\* interpreter prints the traceback and exits with status 1
Uncaught(lines) ==
    /\ out' = out \o lines
    /\ exception' = "OSError"
    /\ pc' = "exited"
    /\ exit_status' = 1
    /\ UNCHANGED returned

(***************************************************************************)
(* Init: the state when main() is entered.                                 *)
(***************************************************************************)
Init ==
    /\ is_static \in BOOLEAN
    /\ system_raw \in SystemValues
    /\ machine_raw \in MachineValues
    /\ fs \in SUBSET Paths
    /\ fs_changes = 0
    /\ pc = "check"
    /\ probes = <<>>
    /\ calls = <<>>
    /\ out = <<>>
    /\ returned = <<>>
    /\ exception = "none"
    /\ platform_info = <<>>
    /\ exit_status = -1

(***************************************************************************)
(* main(), step 1: check_necessary_files                                   *)
(***************************************************************************)
\* mutant of CheckFiles: a missing entry script is reported and the run goes on
CheckFiles_WarnOnly ==
    /\ pc = "check"
    /\ probes' = probes \o <<Probe(23, MainScript), Probe(26, Requirements)>>
    /\ Proceed("check",
               <<"banner">> \o
                 (IF MainScript \notin fs
                  THEN <<"error: main script not found">> ELSE <<>>) \o
                 (IF Requirements \notin fs
                  THEN <<"warning: requirements.txt not found">> ELSE <<>>),
               IF is_static THEN "sysdeps" ELSE "pydeps")
    /\ UNCHANGED <<is_static, system_raw, machine_raw, platform_info, fs, fs_changes, calls>>

CheckFiles ==
    /\ pc = "check"
    /\ IF MainScript \notin fs
       THEN /\ probes' = Append(probes, Probe(23, MainScript))
            /\ Abort("check", <<"banner", "error: main script not found">>)
       ELSE /\ probes' = probes \o <<Probe(23, MainScript), Probe(26, Requirements)>>
            /\ Proceed("check",
                       <<"banner">> \o
                         (IF Requirements \notin fs
                          THEN <<"warning: requirements.txt not found">>
                          ELSE <<>>),
                       IF is_static THEN "sysdeps" ELSE "pydeps")
    /\ UNCHANGED <<is_static, system_raw, machine_raw, platform_info, fs, fs_changes, calls>>

(***************************************************************************)
(* main(), step 2: install_system_dependencies(is_static=True), called     *)
(* only when is_static                                                     *)
(***************************************************************************)
\* what follows the package manager's check_call
AfterSystemInstall(o) ==
    CASE o = "ok" ->
           Proceed("sysdeps",
                   <<"installing system dependencies", "system dependencies installed">>,
                   "pydeps")
      [] o = "nonzero" ->
           Abort("sysdeps",
                 <<"installing system dependencies", "system dependencies failed">>)
      [] OTHER ->
           Uncaught(<<"installing system dependencies">>)

SystemNotLinux ==
    /\ pc = "sysdeps"
    /\ Join(Lower(system_raw)) # "linux"
    /\ Proceed("sysdeps", <<"warning: static build needs Linux, skipped">>, "pydeps")
    /\ UNCHANGED <<is_static, system_raw, machine_raw, platform_info, fs, fs_changes, probes, calls>>

\* mutant of SystemApt: /etc/apk is tried after apt as well (if, not elif)
SystemApt_ThenApk ==
    /\ pc = "sysdeps"
    /\ Join(Lower(system_raw)) = "linux"
    /\ EtcApt \in fs
    /\ \E o \in Outcomes :
          IF o = "ok" /\ EtcApk \in fs
          THEN /\ probes' = probes \o <<Probe(43, EtcApt), Probe(49, EtcApk)>>
               /\ \E o2 \in Outcomes :
                     /\ calls' = calls \o << Call("sysdeps", AptCmd, o),
                                             Call("sysdeps", ApkCmd, o2) >>
                     /\ AfterSystemInstall(o2)
          ELSE /\ probes' = Append(probes, Probe(43, EtcApt))
               /\ calls' = Append(calls, Call("sysdeps", AptCmd, o))
               /\ AfterSystemInstall(o)
    /\ UNCHANGED <<is_static, system_raw, machine_raw, platform_info, fs, fs_changes>>

SystemApt ==
    /\ pc = "sysdeps"
    /\ Join(Lower(system_raw)) = "linux"
    /\ EtcApt \in fs
    /\ probes' = Append(probes, Probe(43, EtcApt))
    /\ \E o \in Outcomes :
          /\ calls' = Append(calls, Call("sysdeps", AptCmd, o))
          /\ AfterSystemInstall(o)
    /\ UNCHANGED <<is_static, system_raw, machine_raw, platform_info, fs, fs_changes>>

\* mutant of SystemApk: /etc/apk is tried without regard to /etc/apt
SystemApk_IgnoresApt ==
    /\ pc = "sysdeps"
    /\ Join(Lower(system_raw)) = "linux"
    /\ EtcApk \in fs
    /\ probes' = Append(probes, Probe(49, EtcApk))
    /\ \E o \in Outcomes :
          /\ calls' = Append(calls, Call("sysdeps", ApkCmd, o))
          /\ AfterSystemInstall(o)
    /\ UNCHANGED <<is_static, system_raw, machine_raw, platform_info, fs, fs_changes>>

SystemApk ==
    /\ pc = "sysdeps"
    /\ Join(Lower(system_raw)) = "linux"
    /\ EtcApt \notin fs
    /\ EtcApk \in fs
    /\ probes' = probes \o <<Probe(43, EtcApt), Probe(49, EtcApk)>>
    /\ \E o \in Outcomes :
          /\ calls' = Append(calls, Call("sysdeps", ApkCmd, o))
          /\ AfterSystemInstall(o)
    /\ UNCHANGED <<is_static, system_raw, machine_raw, platform_info, fs, fs_changes>>

SystemNoManager ==
    /\ pc = "sysdeps"
    /\ Join(Lower(system_raw)) = "linux"
    /\ EtcApt \notin fs
    /\ EtcApk \notin fs
    /\ probes' = probes \o <<Probe(43, EtcApt), Probe(49, EtcApk)>>
    /\ AfterSystemInstall("ok")
    /\ UNCHANGED <<is_static, system_raw, machine_raw, platform_info, fs, fs_changes, calls>>

InstallSystemDependencies ==
    \/ SystemNotLinux
    \/ SystemApt
    \/ SystemApk
    \/ SystemNoManager

(***************************************************************************)
(* main(), step 3: install_python_dependencies, one action per check_call  *)
(***************************************************************************)
PipUpgrade ==
    /\ pc = "pydeps"
    /\ \E o \in Outcomes :
          /\ calls' = Append(calls, Call("pydeps", PipUpgradeCmd, o))
          /\ CASE o = "ok" ->
                    /\ out' = Append(out, "installing python dependencies")
                    /\ pc' = "pydeps_pyinstaller"
                    /\ UNCHANGED <<returned, exception, exit_status>>
               [] o = "nonzero" ->
                    Abort("pydeps", <<"installing python dependencies",
                                      "python dependencies failed">>)
               [] OTHER ->
                    Uncaught(<<"installing python dependencies">>)
    /\ UNCHANGED <<is_static, system_raw, machine_raw, platform_info, fs, fs_changes, probes>>

PipPyinstaller ==
    /\ pc = "pydeps_pyinstaller"
    /\ \E o \in Outcomes :
          /\ calls' = Append(calls, Call("pydeps", PipPyinstallerCmd, o))
          /\ CASE o = "ok" ->
                    /\ pc' = "pydeps_requirements"
                    /\ UNCHANGED <<out, returned, exception, exit_status>>
               [] o = "nonzero" ->
                    Abort("pydeps", <<"python dependencies failed">>)
               [] OTHER ->
                    Uncaught(<<>>)
    /\ UNCHANGED <<is_static, system_raw, machine_raw, platform_info, fs, fs_changes, probes>>

\* mutant of PipRequirements: a missing requirements.txt fails the step
PipRequirements_ManifestRequired ==
    /\ pc = "pydeps_requirements"
    /\ probes' = Append(probes, Probe(71, Requirements))
    /\ IF Requirements \in fs
       THEN \E o \in Outcomes :
               /\ calls' = Append(calls, Call("pydeps", PipRequirementsCmd, o))
               /\ CASE o = "ok" ->
                         Proceed("pydeps", <<"python dependencies installed">>, "build")
                    [] o = "nonzero" ->
                         Abort("pydeps", <<"python dependencies failed">>)
                    [] OTHER ->
                         Uncaught(<<>>)
       ELSE /\ calls' = calls
            /\ Abort("pydeps", <<"python dependencies failed">>)
    /\ UNCHANGED <<is_static, system_raw, machine_raw, platform_info, fs, fs_changes>>

\* mutant of PipRequirements: a failed manifest install is only reported
PipRequirements_FailureIgnored ==
    /\ pc = "pydeps_requirements"
    /\ probes' = Append(probes, Probe(71, Requirements))
    /\ IF Requirements \in fs
       THEN \E o \in Outcomes :
               /\ calls' = Append(calls, Call("pydeps", PipRequirementsCmd, o))
               /\ CASE o = "ok" ->
                         Proceed("pydeps", <<"python dependencies installed">>, "build")
                    [] o = "nonzero" ->
                         Proceed("pydeps", <<"python dependencies failed">>, "build")
                    [] OTHER ->
                         Uncaught(<<>>)
       ELSE /\ calls' = calls
            /\ Proceed("pydeps", <<"python dependencies installed">>, "build")
    /\ UNCHANGED <<is_static, system_raw, machine_raw, platform_info, fs, fs_changes>>

PipRequirements ==
    /\ pc = "pydeps_requirements"
    /\ probes' = Append(probes, Probe(71, Requirements))
    /\ IF Requirements \in fs
       THEN \E o \in Outcomes :
               /\ calls' = Append(calls, Call("pydeps", PipRequirementsCmd, o))
               /\ CASE o = "ok" ->
                         Proceed("pydeps", <<"python dependencies installed">>, "build")
                    [] o = "nonzero" ->
                         Abort("pydeps", <<"python dependencies failed">>)
                    [] OTHER ->
                         Uncaught(<<>>)
       ELSE /\ calls' = calls
            /\ Proceed("pydeps", <<"python dependencies installed">>, "build")
    /\ UNCHANGED <<is_static, system_raw, machine_raw, platform_info, fs, fs_changes>>

InstallPythonDependencies ==
    \/ PipUpgrade
    \/ PipPyinstaller
    \/ PipRequirements

(***************************************************************************)
(* main(), step 4: build_executable, then sys.exit(0)                      *)
(***************************************************************************)
\* mutant of BuildExecutable: main() ignores what build_executable returns
BuildExecutable_IgnoreResult ==
    /\ pc = "build"
    /\ LET info == get_platform_info(system_raw, machine_raw)
           cmd  == BuildCmd(is_static, info[1], info[2])
           head == IF is_static THEN "building static" ELSE "building"
       IN  \E o \in Outcomes :
              /\ platform_info' = info
              /\ calls' = Append(calls, Call("build", cmd, o))
              /\ IF o = "oserror"
                 THEN Uncaught(<<head>>)
                 ELSE /\ out' = out \o <<head,
                                         IF o = "ok" THEN "build succeeded"
                                                     ELSE "build failed",
                                         "all done">>
                      /\ returned' = Append(returned, <<"build", o = "ok">>)
                      /\ pc' = "exited"
                      /\ exit_status' = 0
                      /\ UNCHANGED exception
    /\ UNCHANGED <<is_static, system_raw, machine_raw, fs, fs_changes, probes>>

BuildExecutable ==
    /\ pc = "build"
    /\ LET info == get_platform_info(system_raw, machine_raw)
           cmd  == BuildCmd(is_static, info[1], info[2])
           head == IF is_static THEN "building static" ELSE "building"
       IN  \E o \in Outcomes :
              /\ platform_info' = info
              /\ calls' = Append(calls, Call("build", cmd, o))
              /\ CASE o = "ok" ->
                        /\ out' = out \o <<head, "build succeeded", "all done">>
                        /\ returned' = Append(returned, <<"build", TRUE>>)
                        /\ pc' = "exited"
                        /\ exit_status' = 0
                        /\ UNCHANGED exception
                   [] o = "nonzero" ->
                        Abort("build", <<head, "build failed">>)
                   [] OTHER ->
                        Uncaught(<<head>>)
    /\ UNCHANGED <<is_static, system_raw, machine_raw, fs, fs_changes, probes>>

(***************************************************************************)
(* The host filesystem changes under the running script.                   *)
(***************************************************************************)
FsChange ==
    /\ pc # "exited"
    /\ fs_changes < MaxFsChanges
    /\ \E p \in Paths :
          fs' = IF p \in fs THEN fs \ {p} ELSE fs \cup {p}
    /\ fs_changes' = fs_changes + 1
    /\ UNCHANGED <<is_static, system_raw, machine_raw, platform_info, pc, probes, calls, out,
                   returned, exception, exit_status>>

Next ==
    \/ CheckFiles
    \/ InstallSystemDependencies
    \/ InstallPythonDependencies
    \/ BuildExecutable
    \/ FsChange

Spec == Init /\ [][Next]_vars

\* main() is one sequential thread: while it has not exited, its next step is
\* taken, every blocking check_call having returned
MainStep ==
    \/ CheckFiles
    \/ InstallSystemDependencies
    \/ InstallPythonDependencies
    \/ BuildExecutable

FairSpec == Spec /\ WF_vars(MainStep)

(***************************************************************************)
(* Vocabulary of the properties.                                           *)
(***************************************************************************)
Range(s) == {s[i] : i \in 1..Len(s)}

\* the result os.path.exists gave at `line`, when that line was reached
Probed(line, result) ==
    \E i \in 1..Len(probes) : probes[i].line = line /\ probes[i].result = result

Invoked(argv) == \E j \in 1..Len(calls) : calls[j].argv = argv

StepReturned(step, result) == <<step, result>> \in Range(returned)

StepIndex(step) ==
    CASE step = "check" -> 1 [] step = "sysdeps" -> 2
      [] step = "pydeps" -> 3 [] step = "build" -> 4

PackageManagerCmds == {AptCmd, ApkCmd}

BuildCalls == {c \in Range(calls) : c.step = "build"}

\* argv holds `flag` immediately followed by `value`
HasPair(argv, flag, value) ==
    \E i \in 1..(Len(argv) - 1) : argv[i] = flag /\ argv[i + 1] = value

HasFlag(argv, flag) == \E i \in 1..Len(argv) : argv[i] = flag

HiddenImports == {"requests", "urllib3", "certifi", "charset_normalizer", "idna"}

ExcludedModules == {"tkinter", "matplotlib", "numpy", "pandas", "PIL", "cv2"}

HasModuleLists(argv) ==
    /\ \A m \in HiddenImports : HasPair(argv, "--hidden-import", m)
    /\ \A m \in ExcludedModules : HasPair(argv, "--exclude-module", m)

HasNoModuleLists(argv) ==
    /\ ~HasFlag(argv, "--hidden-import")
    /\ ~HasFlag(argv, "--exclude-module")

HasStaticFlags(argv) ==
    /\ HasPair(argv, "--target-architecture", "arm64")
    /\ HasPair(argv, "--distpath", "dist")
    /\ HasPair(argv, "--workpath", "build")

IsLinuxHost == system_raw \in {<<"L","i","n","u","x">>, <<"l","i","n","u","x">>}

(***************************************************************************)
(* C1: when os.path.exists finds the entry script absent, main ends with   *)
(* exit status 1 and has invoked no external command, in either mode.      *)
(***************************************************************************)
C1_MissingScriptHalts ==
    Probed(23, FALSE) =>
        /\ pc = "exited"
        /\ exit_status = 1
        /\ calls = <<>>

C1_Witness ==
    /\ is_static
    /\ Probed(23, FALSE)
    /\ pc = "exited"
    /\ EtcApt \in fs

(***************************************************************************)
(* C2: a step that reports failure is the last thing of the run: the run   *)
(* has ended with exit status 1, no command of a later step was invoked,   *)
(* a command that did not succeed is the last one invoked, and no command  *)
(* is invoked twice.                                                       *)
(***************************************************************************)
C2_FirstFailureTerminal ==
    /\ \A i \in 1..Len(returned) :
          returned[i][2] = FALSE =>
             /\ i = Len(returned)
             /\ pc = "exited"
             /\ exit_status = 1
             /\ \A j \in 1..Len(calls) :
                   StepIndex(calls[j].step) <= StepIndex(returned[i][1])
    /\ \A j \in 1..Len(calls) : calls[j].outcome # "ok" => j = Len(calls)
    /\ \A j, k \in 1..Len(calls) : calls[j].argv = calls[k].argv => j = k

C2_Witness ==
    /\ StepReturned("pydeps", FALSE)
    /\ Len(calls) = 3
    /\ is_static

(***************************************************************************)
(* C3: a run that has ended has exit status 0 or 1; 0 exactly when the     *)
(* file check and every command invoked succeeded and the build command    *)
(* was among them; 1 exactly when the file check or the last command       *)
(* invoked failed.  A run that has not ended has no exit status.           *)
(***************************************************************************)
AllSucceeded ==
    /\ Probed(23, TRUE)
    /\ \A j \in 1..Len(calls) : calls[j].outcome = "ok"
    /\ BuildCalls # {}

FailedAtLast ==
    \/ Probed(23, FALSE) /\ calls = <<>>
    \/ Len(calls) > 0 /\ calls[Len(calls)].outcome # "ok"
                      /\ \A j \in 1..(Len(calls) - 1) : calls[j].outcome = "ok"

C3_TwoOutcomes ==
    IF pc = "exited"
    THEN /\ exit_status \in {0, 1}
         /\ exit_status = 0 <=> AllSucceeded
         /\ exit_status = 1 <=> FailedAtLast
    ELSE exit_status = -1

C3_Witness ==
    /\ pc = "exited"
    /\ exit_status = 0
    /\ is_static
    /\ Len(calls) = 5

C5_ScriptPathLast ==
    \A c \in BuildCalls :
        /\ c.argv[Len(c.argv)] = MainScript
        /\ \A i, k \in 1..Len(c.argv) :
              (c.argv[i] = MainScript /\ k > i) => c.argv[k] = MainScript

(***************************************************************************)
(* C6: the element after --name in the build command is                    *)
(* CloudflareSpeedTest-linux-arm64-static in static mode on every host,    *)
(* and CloudflareSpeedTest-{os}-{arch} with the host's canonical tokens    *)
(* in normal mode.                                                         *)
(***************************************************************************)
\* the canonical tokens of the hosts of the model, written out
CanonicalOs ==
    CASE system_raw = <<"L","i","n","u","x">>         -> "linux"
      [] system_raw = <<"D","a","r","w","i","n">>     -> "macos"
      [] system_raw = <<"W","i","n","d","o","w","s">> -> "windows"
      [] system_raw = <<"F","r","e","e","B","S","D">> -> "freebsd"
      [] system_raw = <<"l","i","n","u","x">>         -> "linux"
      [] system_raw = <<"D","A","R","W","I","N">>     -> "macos"
      [] system_raw = <<>>                            -> ""

CanonicalArch ==
    CASE machine_raw = <<"x","8","6","_","6","4">>     -> "amd64"
      [] machine_raw = <<"A","M","D","6","4">>         -> "amd64"
      [] machine_raw = <<"a","r","m","6","4">>         -> "arm64"
      [] machine_raw = <<"a","a","r","c","h","6","4">> -> "arm64"
      [] machine_raw = <<"a","r","m","v","7","l">>     -> "armhf"
      [] machine_raw = <<"r","i","s","c","v","6","4">> -> "riscv64"
      [] machine_raw = <<"a","m","d","6","4">>         -> "amd64"
      [] machine_raw = <<"x","6","4">>                 -> "amd64"
      [] machine_raw = <<"a","r","m","v","8","l">>     -> "armhf"
      [] machine_raw = <<"A","R","M","6","4">>         -> "arm64"
      [] machine_raw = <<>>                            -> ""

C6_OutputName ==
    \A c \in BuildCalls :
        /\ c.argv[3] = "--name"
        /\ \A i \in 1..(Len(c.argv) - 1) :
              c.argv[i] = "--name" =>
                 c.argv[i + 1] =
                    IF is_static
                    THEN "CloudflareSpeedTest-linux-arm64-static"
                    ELSE "CloudflareSpeedTest-" \o CanonicalOs \o "-" \o CanonicalArch
        /\ (/\ ~is_static
            /\ system_raw = <<"D","a","r","w","i","n">>
            /\ machine_raw = <<"a","r","m","6","4">>)
           => HasPair(c.argv, "--name", "CloudflareSpeedTest-macos-arm64")

C6_Witness ==
    /\ ~is_static
    /\ system_raw = <<"D","a","r","w","i","n">>
    /\ machine_raw = <<"a","r","m","6","4">>
    /\ \E c \in BuildCalls : HasPair(c.argv, "--name", "CloudflareSpeedTest-macos-arm64")

(***************************************************************************)
(* C7: no exception leaves main, and every command that did not succeed    *)
(* (non-zero exit status, or could not be started) made its step return    *)
(* False.                                                                  *)
(***************************************************************************)
C7_FailuresBecomeFalse ==
    /\ exception = "none"
    /\ \A c \in Range(calls) :
          (c.outcome # "ok" /\ pc = "exited") => StepReturned(c.step, FALSE)

(***************************************************************************)
(* C8: a static run on Linux that finds neither /etc/apt nor /etc/apk      *)
(* invokes no package manager, prints a skip warning and not the           *)
(* installation-completed line, returns True from the system step and      *)
(* goes on to the Python dependencies.                                     *)
(***************************************************************************)
NoManagerFound == is_static /\ Probed(43, FALSE) /\ Probed(49, FALSE)

C8_SkipWarningWithoutManager ==
    NoManagerFound =>
        /\ \A c \in Range(calls) : c.argv \notin PackageManagerCmds
        /\ StepReturned("sysdeps", TRUE)
        /\ "warning: static build needs Linux, skipped" \in Range(out)
        /\ "system dependencies installed" \notin Range(out)

(***************************************************************************)
(* C9: a package-manager command is invoked only in static mode on a       *)
(* Linux host whose marker path was found; otherwise none is invoked and   *)
(* the system step does not fail; at most one is invoked in a run, and     *)
(* apt wins when both markers exist.                                       *)
(***************************************************************************)
C9_PackageManagerOnlyStaticLinux ==
    /\ Invoked(AptCmd) => (is_static /\ IsLinuxHost /\ Probed(43, TRUE))
    /\ Invoked(ApkCmd) => (is_static /\ IsLinuxHost /\ Probed(49, TRUE))
    /\ (~is_static \/ ~IsLinuxHost) =>
          /\ \A c \in Range(calls) : c.argv \notin PackageManagerCmds
          /\ ~StepReturned("sysdeps", FALSE)
    /\ Cardinality({j \in 1..Len(calls) : calls[j].argv \in PackageManagerCmds}) <= 1
    /\ Probed(43, TRUE) => ~Invoked(ApkCmd)
    /\ (/\ fs_changes = 0
        /\ {EtcApt, EtcApk} \subseteq fs
        /\ \E c \in Range(calls) : c.step = "sysdeps")
       => (Invoked(AptCmd) /\ ~Invoked(ApkCmd))

C9_Witness ==
    /\ fs_changes = 0
    /\ {EtcApt, EtcApk} \subseteq fs
    /\ Invoked(AptCmd)
    /\ pc = "build"

(***************************************************************************)
(* C10: a run that found the entry script and never found the manifest,    *)
(* and whose install commands all succeeded, invokes the build command     *)
(* and not the manifest install, and ends with exit status 0 when the      *)
(* build command succeeded and 1 when it did not.                          *)
(***************************************************************************)
ManifestAbsentRun ==
    /\ Probed(23, TRUE)
    /\ Probed(26, FALSE)
    /\ ~Probed(71, TRUE)
    /\ \A c \in Range(calls) : c.step \in {"sysdeps", "pydeps"} => c.outcome = "ok"

C10_ManifestAbsenceNeverAborts ==
    (pc = "exited" /\ ManifestAbsentRun) =>
        /\ ~Invoked(PipRequirementsCmd)
        /\ Invoked(PipUpgradeCmd) /\ Invoked(PipPyinstallerCmd)
        /\ \E c \in BuildCalls :
              exit_status = (IF c.outcome = "ok" THEN 0 ELSE 1)

C10_Witness ==
    /\ pc = "exited"
    /\ ManifestAbsentRun
    /\ Requirements \notin fs
    /\ fs_changes = 0
    /\ exit_status = 0

(***************************************************************************)
(* C11: the tokens get_platform_info returns are those of the reference    *)
(* mapping, for every raw OS and architecture value of the model: the      *)
(* table entries, values outside the tables lowercased, and values that    *)
(* differ from a table entry only in case.                                 *)
(***************************************************************************)
C11_PlatformMapping ==
    platform_info # <<>> =>
        /\ Len(platform_info) = 2
        /\ platform_info[1] = CanonicalOs
        /\ platform_info[2] = CanonicalArch

C11_Witness ==
    /\ system_raw = <<"D","A","R","W","I","N">>
    /\ machine_raw = <<"A","M","D","6","4">>
    /\ platform_info = <<"macos", "amd64">>

(***************************************************************************)
(* C12: the tokens get_platform_info returns are never empty, whatever     *)
(* the host reports, the empty string included.                            *)
(***************************************************************************)
C12_TokensNonEmpty ==
    platform_info # <<>> =>
        /\ platform_info[1] # ""
        /\ platform_info[2] # ""

(***************************************************************************)
(* C13: in normal and in static mode the build command holds the base      *)
(* arguments: --onefile, --name with the output name right after it,       *)
(* --clean, --noconfirm, --strip, --optimize with 2 right after it,        *)
(* --console and the entry script path.                                    *)
(***************************************************************************)
ExpectedName ==
    IF is_static
    THEN "CloudflareSpeedTest-linux-arm64-static"
    ELSE "CloudflareSpeedTest-" \o CanonicalOs \o "-" \o CanonicalArch

HasBaseArguments(argv) ==
    /\ argv[1] = "pyinstaller"
    /\ HasFlag(argv, "--onefile")
    /\ HasPair(argv, "--name", ExpectedName)
    /\ HasFlag(argv, "--clean")
    /\ HasFlag(argv, "--noconfirm")
    /\ HasFlag(argv, "--strip")
    /\ HasPair(argv, "--optimize", "2")
    /\ HasFlag(argv, "--console")
    /\ HasFlag(argv, MainScript)

C13_BaseArguments ==
    /\ \A c \in BuildCalls : HasBaseArguments(c.argv)
    /\ platform_info # <<>> => BuildCalls # {}

C13_Witness ==
    /\ is_static
    /\ system_raw = <<"W","i","n","d","o","w","s">>
    /\ \E c \in BuildCalls : HasBaseArguments(c.argv) /\ HasStaticFlags(c.argv)

(***************************************************************************)
(* C14: the commands of a run are invoked in the order package manager,    *)
(* pip upgrade, pyinstaller install, manifest install, build, each at      *)
(* most once and never backwards; a package manager only in static mode,   *)
(* the manifest install only when requirements.txt was found; and a        *)
(* command is invoked only after every command before it succeeded, so     *)
(* the build follows a successful pip upgrade and pyinstaller install.     *)
(***************************************************************************)
CommandRank(c) ==
    CASE c.argv \in PackageManagerCmds -> 1
      [] c.argv = PipUpgradeCmd        -> 2
      [] c.argv = PipPyinstallerCmd    -> 3
      [] c.argv = PipRequirementsCmd   -> 4
      [] c.step = "build"              -> 5
      [] OTHER                         -> 0

C14_ForwardOrder ==
    /\ \A j \in 1..Len(calls) : CommandRank(calls[j]) \in 1..5
    /\ \A j, k \in 1..Len(calls) :
          j < k => /\ CommandRank(calls[j]) < CommandRank(calls[k])
                   /\ calls[j].outcome = "ok"
    /\ \A j \in 1..Len(calls) :
          /\ CommandRank(calls[j]) = 1 => (is_static /\ j = 1)
          /\ CommandRank(calls[j]) = 3 => (j > 1 /\ CommandRank(calls[j - 1]) = 2)
          /\ CommandRank(calls[j]) = 4 =>
                (j > 1 /\ CommandRank(calls[j - 1]) = 3 /\ Probed(71, TRUE))
          /\ CommandRank(calls[j]) = 5 =>
                (j > 1 /\ CommandRank(calls[j - 1]) \in {3, 4})
    /\ Probed(71, TRUE) => Invoked(PipRequirementsCmd)

C14_Witness ==
    /\ Len(calls) = 5
    /\ calls[1].argv = ApkCmd
    /\ calls[4].argv = PipRequirementsCmd
    /\ calls[5].step = "build"

(***************************************************************************)
(* C15: the manifest install is invoked exactly when requirements.txt is   *)
(* found by install_python_dependencies, and a run whose file check        *)
(* printed the manifest-missing warning never invokes it, also when the    *)
(* filesystem changes in between; the pip upgrade and the pyinstaller      *)
(* install do not depend on the manifest.                                  *)
(***************************************************************************)
C15_WarningMeansSkipped ==
    /\ Invoked(PipRequirementsCmd) <=> Probed(71, TRUE)
    /\ Probed(26, FALSE) => ~Invoked(PipRequirementsCmd)
    /\ ("warning: requirements.txt not found" \in Range(out)) <=> Probed(26, FALSE)
    /\ (Probed(26, FALSE) /\ pc = "pydeps_requirements") =>
          (Invoked(PipUpgradeCmd) /\ Invoked(PipPyinstallerCmd))

(***************************************************************************)
(* C16: every run ends, and it invokes at most five commands: at most one  *)
(* package-manager command, three pip commands and one build command.      *)
(***************************************************************************)
CommandBudget ==
    /\ Len(calls) <= 5
    /\ Cardinality({j \in 1..Len(calls) : calls[j].argv \in PackageManagerCmds}) <= 1
    /\ Cardinality({j \in 1..Len(calls) :
                       calls[j].step = "pydeps" /\ calls[j].argv[3] = "pip"}) <= 3
    /\ Cardinality({j \in 1..Len(calls) : calls[j].step = "build"}) <= 1
    /\ \A j \in 1..Len(calls) :
          \/ calls[j].argv \in PackageManagerCmds
          \/ calls[j].step = "pydeps" /\ calls[j].argv[3] = "pip"
          \/ calls[j].step = "build"

C16_TerminatesWithinFiveCommands ==
    /\ <>(pc = "exited")
    /\ []CommandBudget

C16_Witness ==
    /\ pc = "exited"
    /\ Len(calls) = 5
    /\ calls[1].argv = AptCmd
    /\ fs_changes = 1
    /\ exit_status = 1

====
